---------------------------- MODULE Spec2Model ----------------------------
(***************************************************************************)
(* h2fit: two-stage fit of a seven-parameter fuel-cell polarization curve. *)
(* The repository holds two scripts with the same pipeline:                *)
(*   src/h2fit/__main__.py  inputs and bounds are literals;                *)
(*   src/h2fit/csv.py       inputs and bounds are read from two CSV files. *)
(* variant says which script runs.                                         *)
(*                                                                         *)
(* Numbers are fixed point.  Units:                                        *)
(*   voltages, x1 .............. 1e-4 V                                    *)
(*   corrente, temperatura ..... 1 A, 1 K                                  *)
(*   x2 ........................ 1e-4 V/K                                  *)
(*   x3, x4 .................... 1e-7 V/K                                  *)
(*   Rint ...................... 1e-4 Ohm                                  *)
(*   m ......................... 1e-7 V                                    *)
(*   n ......................... 1e-4 1/A                                  *)
(*   logarithms, exponentials .. 1e-3                                      *)
(* A float is a record [nan, v]: nan marks numpy's NaN (np.log of a        *)
(* negative number returns NaN with a RuntimeWarning, it does not raise).  *)
(* Float rounding and overflow to inf are not modelled.                    *)
(***************************************************************************)
EXTENDS Integers, Sequences, FiniteSets, TLC

VARIABLES
    variant,            \* "main" (__main__.py) or "csv" (csv.py)
    corrente,           \* sample currents
    temperatura,        \* sample temperatures
    vref,               \* measured voltages
    limites,            \* one <<min, max>> per parameter
    pc,                 \* position in the script
    bounds_arg,         \* bounds= of the optimizer call in progress (<<>>: none)
    x0,                 \* starting point given to minimize
    nit,                \* iterations done by the optimizer call in progress
    conv,               \* the running optimizer met its tolerance
    melhor,             \* best point of the optimizer call in progress: [x, f]
    ultimo,             \* last call of func_objetivo: [x, f]
    resultado,          \* what differential_evolution returned
    refinamento,        \* what minimize returned
    params_otimizados,
    v_saida_otimizada,
    potencia_saida,
    erro_perc,
    saida,              \* what the script printed
    figuras,            \* what the script plotted
    etapas,             \* stages started so far, in order
    erro                \* the exception that ended the script, or "nenhum"

vars == <<variant, corrente, temperatura, vref, limites, pc, bounds_arg, x0,
          nit, conv, melhor, ultimo, resultado, refinamento,
          params_otimizados, v_saida_otimizada, potencia_saida, erro_perc,
          saida, figuras, etapas, erro>>

-----------------------------------------------------------------------------
(* Fixed-point helpers *)

Abs(a) == IF a < 0 THEN -a ELSE a

Min(a, b) == IF a <= b THEN a ELSE b

Max(a, b) == IF a >= b THEN a ELSE b

\* Python's float division, rounded toward zero.
Quot(a, b) ==
    LET q == Abs(a) \div Abs(b)
    IN  IF (a < 0) = (b < 0) THEN q ELSE -q

F(v) == [nan |-> FALSE, v |-> v]

NaN == [nan |-> TRUE, v |-> 0]

\* s[1] + ... + s[k]
RECURSIVE SomaAte(_, _)
SomaAte(s, k) == IF k = 0 THEN 0 ELSE s[k] + SomaAte(s, k - 1)

-----------------------------------------------------------------------------
(* Constants of the scripts *)

pH2 == 65

pO2 == 21

N == 60

DE_maxiter == 3000

LBFGS_maxiter == 5000

nomes_parametros ==
    <<"x1", "x2", "x3", "x4", "Resistencia Interna", "m", "n">>

\* limites of __main__.py, in the model's units.
limites_main ==
    << <<-12000, -8000>>,      \* x1    (-1.2, -0.8)
       <<10, 50>>,             \* x2    (1e-3, 5e-3)
       <<360, 980>>,           \* x3    (3.6e-5, 9.8e-5)
       <<-2600, -954>>,        \* x4    (-2.6e-4, -0.954e-4)
       <<1, 8>>,               \* Rint  (1e-4, 8e-4)
       <<1972, 2000000>>,      \* m     (1.972e-4, 0.2)
       <<300, 5002>> >>        \* n     (0.03, 0.5002)

\* The samples of __main__.py, currents and temperatures quantised to 1 A, 1 K.
corrente_main == <<11, 23, 35, 50, 68>>

temperatura_main == <<307, 316, 322, 326, 330>>

vref_main == <<522000, 511000, 492000, 470000, 441000>>

-----------------------------------------------------------------------------
(* numpy functions, to 1e-3 *)

\* np.log(p) for a partial pressure p given in 1e-2.
LnPressao(p) ==
    CASE p = 65 -> -431
      [] p = 21 -> -1561

\* 1000 * ln(i + 1e-6) for i = 0 .. 70.
LnTab ==
    <<0, 693, 1099, 1386, 1609, 1792, 1946, 2079, 2197, 2303,
      2398, 2485, 2565, 2639, 2708, 2773, 2833, 2890, 2944, 2996,
      3045, 3091, 3135, 3178, 3219, 3258, 3296, 3332, 3367, 3401,
      3434, 3466, 3497, 3526, 3555, 3584, 3611, 3638, 3664, 3689,
      3714, 3738, 3761, 3784, 3807, 3829, 3850, 3871, 3892, 3912,
      3932, 3951, 3970, 3989, 4007, 4025, 4043, 4060, 4078, 4094,
      4111, 4127, 4143, 4159, 4174, 4190, 4205, 4220, 4234, 4248>>

\* np.log(I + 1e-6): NaN when the argument is negative.
LnCorrente(I) ==
    IF I < 0 THEN NaN
    ELSE IF I = 0 THEN F(-13816)
    ELSE F(LnTab[I])

\* np.log(pO2 / (5.08e6 * np.exp(-498 / T)))
\*   = ln(pO2) - ln(5.08e6) + 498 / T, finite for every T > 0.
LnRazaoO2(T) == LnPressao(pO2) - 15441 + (498000 \div T)

\* e^k for k = -1 .. 4.
ExpInt(k) ==
    CASE k = -1 -> 368
      [] k = 0 -> 1000
      [] k = 1 -> 2718
      [] k = 2 -> 7389
      [] k = 3 -> 20086
      [] k = 4 -> 54598

\* e^f for f in [0, 1), f and the result in 1e-4: the Taylor series to the
\* eighth power, in Horner form.
ExpSerie(f) ==
    LET h8 == 10000 + (f \div 8)
        h7 == 10000 + ((f * h8) \div 70000)
        h6 == 10000 + ((f * h7) \div 60000)
        h5 == 10000 + ((f * h6) \div 50000)
        h4 == 10000 + ((f * h5) \div 40000)
        h3 == 10000 + ((f * h4) \div 30000)
        h2 == 10000 + ((f * h3) \div 20000)
    IN  10000 + ((f * h2) \div 10000)

\* np.exp(z), z in 1e-4, result in 1e-3.
Exp(z) == (ExpInt(z \div 10000) * ExpSerie(z % 10000)) \div 10000

-----------------------------------------------------------------------------
(* Model: calcular_vsaida *)

v_nernst(T) ==
    12290 - ((85 * (100 * T - 29815)) \div 1000)
          + ((4309 * T * (LnPressao(pH2) + (LnPressao(pO2) \div 2))) \div 10000000)

\* The line "perda_ativacao = -(...)" of both scripts: the negated sum.
perda_ativacao(I, T, x1, x2, x3, x4) ==
    LET lnI == LnCorrente(I)
    IN  IF lnI.nan THEN NaN
        ELSE F(-(x1 + x2 * T
                 + ((x3 * T * (LnRazaoO2(T) \div 10)) \div 100000)
                 + ((x4 * T * (lnI.v \div 10)) \div 100000)))

perda_ohmica_sem_corrente(Rint, I) == Rint

perda_ohmica(Rint, I) == Rint * I

perda_concentracao(m, n, I) == (m * Exp(n * I)) \div 1000000

\* __main__.py line 27: v_nernst + perda_ativacao - perda_ohmica - perda_concentracao
v_saida_main(I, T, p) ==
    LET a == perda_ativacao(I, T, p[1], p[2], p[3], p[4])
    IN  IF a.nan THEN NaN
        ELSE F(N * (v_nernst(T) + a.v - perda_ohmica(p[5], I)
                    - perda_concentracao(p[6], p[7], I)))

\* csv.py line 38: v_nernst - perda_ativacao - perda_ohmica - perda_concentracao
v_saida_csv(I, T, p) ==
    LET a == perda_ativacao(I, T, p[1], p[2], p[3], p[4])
    IN  IF a.nan THEN NaN
        ELSE F(N * (v_nernst(T) - a.v - perda_ohmica(p[5], I)
                    - perda_concentracao(p[6], p[7], I)))

\* calcular_vsaida of the script that runs, element-wise over the samples.
calcular_vsaida(I, T, params) ==
    [i \in 1..Len(I) |->
        IF variant = "main" THEN v_saida_main(I[i], T[i], params)
        ELSE v_saida_csv(I[i], T[i], params)]

-----------------------------------------------------------------------------
(* Objective: func_objetivo *)

\* A sum of squares exceeds 32 bits: it is kept as H * 10^6 + L, 0 <= L < 10^6.
Largo(r) == [nan |-> FALSE, H |-> r \div 1000000, L |-> r % 1000000]

NaNLargo == [nan |-> TRUE, H |-> 0, L |-> 0]

Largos == [nan : BOOLEAN, H : Int, L : Int]

\* r ** 2
Quadrado[r \in Int] ==
    LET a == Abs(r) \div 1000
        b == Abs(r) % 1000
        lo == ((2 * a * b) % 1000) * 1000 + b * b
    IN  [nan |-> FALSE,
         H |-> a * a + ((2 * a * b) \div 1000) + (lo \div 1000000),
         L |-> lo % 1000000]

\* np.sum of a float array: NaN as soon as one element is NaN.
np_sum[termos \in Seq(Largos)] ==
    IF \E i \in DOMAIN termos : termos[i].nan THEN NaNLargo
    ELSE LET h == SomaAte([i \in DOMAIN termos |-> termos[i].H], Len(termos))
             l == SomaAte([i \in DOMAIN termos |-> termos[i].L], Len(termos))
         IN  [nan |-> FALSE, H |-> h + (l \div 1000000), L |-> l % 1000000]

\* np.sum((vref - vs) ** 2)
func_objetivo(params) ==
    LET vs == calcular_vsaida(corrente, temperatura, params)
    IN  np_sum[[i \in 1..Len(corrente) |->
                  IF vs[i].nan THEN NaNLargo ELSE Quadrado[vref[i] - vs[i].v]]]

\* Float comparisons: every comparison with NaN is false.
Menor(a, b) ==
    /\ ~a.nan /\ ~b.nan
    /\ (a.H < b.H \/ (a.H = b.H /\ a.L < b.L))

MenorIgual(a, b) ==
    /\ ~a.nan /\ ~b.nan
    /\ (a.H < b.H \/ (a.H = b.H /\ a.L <= b.L))

EhZero(a) == ~a.nan /\ a.H = 0 /\ a.L = 0

NaoNegativo(a) == ~a.nan /\ a.H >= 0

-----------------------------------------------------------------------------
(* Inputs *)

\* Rows per CSV sample file explored.
MaxAmostras == 2

\* Batches in which an optimizer's iterations are stepped.
Lotes == 2

\* The points the optimizers may visit: one value set per parameter.
Grade ==
    << {-8500}, {50}, {700}, {-1500}, {2, 5, 9}, {3000}, {300, 500} >>

ParamGrid ==
    {<<a, b, c, d, r, m, n>> :
        a \in Grade[1], b \in Grade[2], c \in Grade[3], d \in Grade[4],
        r \in Grade[5], m \in Grade[6], n \in Grade[7]}

\* Rows an entradas.csv may hold, <<corrente, temperatura, vref>>: the first
\* samples of __main__.py, a file with a negative current, a file with a
\* negative voltage, and a file that one point of the grid fits exactly.
LinhasCSV ==
    { << <<11, 307, 522000>>, <<23, 316, 511000>>, <<35, 322, 492000>> >>,
      << <<-1, 307, 522000>>, <<11, 307, 522000>>, <<23, 316, 511000>> >>,
      << <<11, 307, -522000>>, <<23, 316, 511000>>, <<35, 322, 492000>> >>,
      << <<11, 307, 866280>>, <<23, 316, 855300>>, <<35, 322, 848160>> >> }

\* limites.csv files: the bounds of __main__.py, a narrower box, and a file
\* whose Rint row has minimo > maximo.
LimitesCSV ==
    { limites_main,
      << <<-9000, -8000>>, <<10, 50>>, <<360, 980>>, <<-2600, -954>>,
         <<1, 5>>, <<1972, 2000000>>, <<300, 300>> >>,
      << <<-12000, -8000>>, <<10, 50>>, <<360, 980>>, <<-2600, -954>>,
         <<8, 1>>, <<1972, 2000000>>, <<300, 5002>> >> }

Coluna(linhas, c) == [i \in 1..Len(linhas) |-> linhas[i][c]]

-----------------------------------------------------------------------------
(* scipy.optimize: what a bounded optimizer may evaluate *)

BoundsValidos(b) == \A i \in 1..Len(b) : b[i][1] <= b[i][2]

InBox(p, b) == \A i \in 1..Len(b) : b[i][1] <= p[i] /\ p[i] <= b[i][2]

\* differential_evolution scales its population by |max - min| around the
\* midpoint, so it samples between the two ends of each pair.
CaixaDE(b) ==
    {p \in ParamGrid :
        \A i \in 1..Len(b) :
            Min(b[i][1], b[i][2]) <= p[i] /\ p[i] <= Max(b[i][1], b[i][2])}

\* L-BFGS-B keeps every iterate and every trial point inside bounds;
\* bounds = <<>> is an unbounded call.
CaixaLBFGS(b) == {p \in ParamGrid : InBox(p, b)}

\* minimize clips the starting point to the bounds.
Clip(p, b) ==
    IF b = <<>> THEN p
    ELSE [i \in 1..Len(p) |-> Max(b[i][1], Min(p[i], b[i][2]))]

Avalia(p) == [x |-> p, f |-> func_objetivo(p)]

Passo(maxiter) == maxiter \div Lotes

Nenhum == [x |-> <<>>, fun |-> Largo(0), success |-> FALSE]

-----------------------------------------------------------------------------
(* Initial state: the inputs are in place, nothing has run *)

Entradas ==
    {[variant |-> "main", corrente |-> corrente_main,
      temperatura |-> temperatura_main, vref |-> vref_main,
      limites |-> limites_main]}
    \cup
    {[variant |-> "csv", corrente |-> Coluna(SubSeq(l, 1, k), 1),
      temperatura |-> Coluna(SubSeq(l, 1, k), 2),
      vref |-> Coluna(SubSeq(l, 1, k), 3), limites |-> b] :
        l \in LinhasCSV, k \in 0..MaxAmostras, b \in LimitesCSV}

Init ==
    /\ \E e \in Entradas :
        /\ variant = e.variant
        /\ corrente = e.corrente
        /\ temperatura = e.temperatura
        /\ vref = e.vref
        /\ limites = e.limites
    /\ pc = "inicio"
    /\ bounds_arg = <<>>
    /\ x0 = <<>>
    /\ nit = 0
    /\ conv = FALSE
    /\ melhor = [x |-> <<>>, f |-> Nenhum.fun]
    /\ ultimo = [x |-> <<>>, f |-> Nenhum.fun]
    /\ resultado = Nenhum
    /\ refinamento = Nenhum
    /\ params_otimizados = <<>>
    /\ v_saida_otimizada = <<>>
    /\ potencia_saida = <<>>
    /\ erro_perc = <<>>
    /\ saida = <<>>
    /\ figuras = <<>>
    /\ etapas = <<>>
    /\ erro = "nenhum"

entradas == <<variant, corrente, temperatura, vref, limites>>

pos == <<v_saida_otimizada, potencia_saida, erro_perc>>

relato == <<saida, figuras>>

-----------------------------------------------------------------------------
(* Stage 1: resultado = differential_evolution(func_objetivo, bounds=limites,
   maxiter=3000, popsize=25, tol=1e-8, polish=True) *)

DE_bounds == limites

\* The call starts: the initial population is evaluated.  A pair with
\* min > max is not checked by the script; the library may reject it at once
\* or go on.
DE_Inicia ==
    /\ pc = "inicio"
    /\ etapas' = Append(etapas, "etapa1")
    /\ bounds_arg' = DE_bounds
    /\ \/ /\ ~BoundsValidos(DE_bounds)
          /\ pc' = "abortado"
          /\ erro' = "ValueError"
          /\ UNCHANGED <<nit, conv, melhor, ultimo>>
       \/ /\ \E p \in CaixaDE(DE_bounds) :
             \E av \in {Avalia(p)} :
                /\ ultimo' = av
                /\ melhor' = av
          /\ pc' = "de"
          /\ nit' = 0
          /\ conv' = FALSE
          /\ erro' = erro
    /\ UNCHANGED <<entradas, x0, resultado, refinamento, params_otimizados,
                   pos, relato>>

\* A batch of generations: a trial replaces the best member when its energy
\* is not larger (the solver keeps each member's energy); the population may
\* meet tol.
DE_Geracao ==
    /\ pc = "de"
    /\ ~conv
    /\ nit < DE_maxiter
    /\ \E t \in CaixaDE(bounds_arg) :
        \E av \in {Avalia(t)} :
            /\ ultimo' = av
            /\ melhor' = IF MenorIgual(av.f, melhor.f) THEN av ELSE melhor
    /\ nit' = Min(nit + Passo(DE_maxiter), DE_maxiter)
    /\ conv' \in BOOLEAN
    /\ UNCHANGED <<entradas, pc, bounds_arg, x0, resultado, refinamento,
                   params_otimizados, pos, relato, etapas, erro>>

\* The search ends on tol or on maxiter; polish=True runs L-BFGS-B from the
\* best member inside the same bounds, which rejects a pair with min > max.
DE_Termina ==
    /\ pc = "de"
    /\ conv \/ nit >= DE_maxiter
    /\ \/ /\ ~BoundsValidos(bounds_arg)
          /\ pc' = "abortado"
          /\ erro' = "ValueError"
          /\ UNCHANGED <<ultimo, melhor, resultado>>
       \/ /\ BoundsValidos(bounds_arg)
          /\ \E q \in CaixaLBFGS(bounds_arg) :
             \E av \in {Avalia(q)} :
                /\ ultimo' = av
                /\ melhor' = IF Menor(av.f, melhor.f) THEN av ELSE melhor
          /\ resultado' = [x |-> melhor'.x, fun |-> melhor'.f,
                           success |-> conv]
          /\ pc' = "de_fim"
          /\ erro' = erro
    /\ UNCHANGED <<entradas, bounds_arg, x0, nit, conv, refinamento,
                   params_otimizados, pos, relato, etapas>>

\* params_otimizados = resultado.x; a variant that searches again when the
\* search did not converge.
AtribuiResultado_repete ==
    /\ pc = "de_fim"
    /\ IF resultado.success
       THEN /\ params_otimizados' = resultado.x
            /\ pc' = "refino"
            /\ UNCHANGED <<nit, conv>>
       ELSE /\ pc' = "de"
            /\ nit' = 0
            /\ conv' = FALSE
            /\ UNCHANGED params_otimizados
    /\ UNCHANGED <<entradas, bounds_arg, x0, melhor, ultimo, resultado,
                   refinamento, pos, relato, etapas, erro>>

\* params_otimizados = resultado.x
AtribuiResultado ==
    /\ pc = "de_fim"
    /\ params_otimizados' = resultado.x
    /\ pc' = "refino"
    /\ UNCHANGED <<entradas, bounds_arg, x0, nit, conv, melhor, ultimo,
                   resultado, refinamento, pos, relato, etapas, erro>>

-----------------------------------------------------------------------------
(* Stage 2: refinamento = minimize(func_objetivo, params_otimizados,
   bounds=limites, method='L-BFGS-B', options={maxiter: 5000, ftol: 1e-12}) *)

LBFGS_bounds_omitido == <<>>

LBFGS_bounds == limites

LBFGS_x0_limite_inferior == [i \in 1..Len(limites) |-> limites[i][1]]

LBFGS_x0 == params_otimizados

LBFGS_Inicia ==
    /\ pc = "refino"
    /\ etapas' = Append(etapas, "etapa2")
    /\ bounds_arg' = LBFGS_bounds
    /\ x0' = LBFGS_x0
    /\ \E av \in {Avalia(Clip(LBFGS_x0, LBFGS_bounds))} :
        /\ ultimo' = av
        /\ melhor' = av
    /\ nit' = 0
    /\ conv' = FALSE
    /\ pc' = "lbfgs"
    /\ UNCHANGED <<entradas, resultado, refinamento, params_otimizados, pos,
                   relato, erro>>

\* A batch of iterations: a trial point becomes the iterate only when it
\* lowers the objective; the iterate may meet ftol.
LBFGS_Iteracao ==
    /\ pc = "lbfgs"
    /\ ~conv
    /\ nit < LBFGS_maxiter
    /\ \E t \in CaixaLBFGS(bounds_arg) :
        \E av \in {Avalia(t)} :
            /\ ultimo' = av
            /\ melhor' = IF Menor(av.f, melhor.f) THEN av ELSE melhor
    /\ nit' = Min(nit + Passo(LBFGS_maxiter), LBFGS_maxiter)
    /\ conv' \in BOOLEAN
    /\ UNCHANGED <<entradas, pc, bounds_arg, x0, resultado, refinamento,
                   params_otimizados, pos, relato, etapas, erro>>

\* The call returns: on ftol (success), on maxiter, or on a rule the call
\* leaves at the library's default (maxfun function evaluations, a line
\* search that fails).
LBFGS_Termina ==
    /\ pc = "lbfgs"
    /\ \/ conv
       \/ ~conv /\ nit >= LBFGS_maxiter
       \/ ~conv /\ nit < LBFGS_maxiter
    /\ refinamento' = [x |-> melhor.x, fun |-> melhor.f, success |-> conv]
    /\ pc' = "lbfgs_fim"
    /\ UNCHANGED <<entradas, bounds_arg, x0, nit, conv, melhor, ultimo,
                   resultado, params_otimizados, pos, relato, etapas, erro>>

\* The assignment left out: the report is made from Stage 1's vector.
AtribuiRefinamento_omitida ==
    /\ pc = "lbfgs_fim"
    /\ pc' = "pos"
    /\ UNCHANGED <<entradas, bounds_arg, x0, nit, conv, melhor, ultimo,
                   resultado, refinamento, params_otimizados, pos, relato,
                   etapas, erro>>

\* params_otimizados = refinamento.x
AtribuiRefinamento ==
    /\ pc = "lbfgs_fim"
    /\ params_otimizados' = refinamento.x
    /\ pc' = "pos"
    /\ UNCHANGED <<entradas, bounds_arg, x0, nit, conv, melhor, ultimo,
                   resultado, refinamento, pos, relato, etapas, erro>>

-----------------------------------------------------------------------------
(* Post-processing, report and plots *)

\* np.abs((vref - v) / vref) * 100, in 0.1 %.
erro_percentual(ref, v) == Abs(Quot((ref - v) * 1000, ref))

\* v_saida_otimizada = calcular_vsaida(corrente, temperatura, params_otimizados)
\* potencia_saida = v_saida_otimizada * corrente
\* erro_perc = np.abs((vref - v_saida_otimizada) / vref) * 100
PosProcessa ==
    /\ pc = "pos"
    /\ etapas' = Append(etapas, "pos")
    /\ LET v == calcular_vsaida(corrente, temperatura, params_otimizados)
       IN  /\ v_saida_otimizada' = v
           /\ potencia_saida' =
                [i \in 1..Len(v) |->
                    IF v[i].nan THEN NaN ELSE F(v[i].v * corrente[i])]
           /\ erro_perc' =
                [i \in 1..Len(v) |->
                    IF v[i].nan THEN NaN
                    ELSE F(erro_percentual(vref[i], v[i].v))]
    /\ pc' = "imprime"
    /\ UNCHANGED <<entradas, bounds_arg, x0, nit, conv, melhor, ultimo,
                   resultado, refinamento, params_otimizados, relato, erro>>

\* Rounding of a printed number to a multiple of d.
Arred(v, d) == (2 * v + d) \div (2 * d)

\* f"{valor:.6f}": the parameter in 1e-6 of its unit.
Fmt6(i, v) == IF i \in {3, 4, 6} THEN Arred(v, 10) ELSE v * 100

\* f"{x:.2f}" of a voltage.
Fmt2(x) == IF x.nan THEN "nan" ELSE Arred(x.v, 100)

\* np.mean: NaN for an empty array or one that holds a NaN.
np_mean(a) ==
    IF a = <<>> \/ (\E i \in 1..Len(a) : a[i].nan) THEN NaN
    ELSE F(SomaAte([i \in 1..Len(a) |-> a[i].v], Len(a)) \div Len(a))

\* The prints: the seven parameters, the mean percent error, one line per
\* sample.
Imprime ==
    /\ pc = "imprime"
    /\ saida' =
        [parametros |->
            [i \in 1..Len(params_otimizados) |->
                <<nomes_parametros[i], Fmt6(i, params_otimizados[i])>>],
         erro_medio |-> np_mean(erro_perc),
         linhas |->
            [i \in 1..Len(corrente) |->
                [I |-> corrente[i], T |-> temperatura[i],
                 Vref |-> Fmt2(F(vref[i])), Vsim |-> Fmt2(v_saida_otimizada[i]),
                 Erro |-> erro_perc[i]]]]
    /\ pc' = "grafico"
    /\ UNCHANGED <<entradas, bounds_arg, x0, nit, conv, melhor, ultimo,
                   resultado, refinamento, params_otimizados, pos, figuras,
                   etapas, erro>>

\* The two figures and plt.show().
Plota ==
    /\ pc = "grafico"
    /\ figuras' =
        << [x |-> corrente, Vref |-> vref, Vsim |-> v_saida_otimizada],
           [x |-> corrente, Potencia |-> potencia_saida] >>
    /\ pc' = "fim"
    /\ UNCHANGED <<entradas, bounds_arg, x0, nit, conv, melhor, ultimo,
                   resultado, refinamento, params_otimizados, pos, saida,
                   etapas, erro>>

-----------------------------------------------------------------------------

Next ==
    \/ DE_Inicia
    \/ DE_Geracao
    \/ DE_Termina
    \/ AtribuiResultado
    \/ LBFGS_Inicia
    \/ LBFGS_Iteracao
    \/ LBFGS_Termina
    \/ AtribuiRefinamento
    \/ PosProcessa
    \/ Imprime
    \/ Plota

Spec == Init /\ [][Next]_vars

\* A script runs its next statement, and a library call its next iteration.
FairSpec == Spec /\ WF_vars(Next)

-----------------------------------------------------------------------------
(* Properties *)

Avaliou == ultimo.x # <<>>

Apos == {"imprime", "grafico", "fim"}

\* What the spec calls InvalidInput.
EntradaInvalida ==
    \/ ~BoundsValidos(limites)
    \/ Len(corrente) # Len(temperatura)
    \/ Len(corrente) # Len(vref)
    \/ Len(corrente) = 0

\* C1: with declared intervals min <= max, both optimizer calls are given
\* limites as bounds, every vector func_objetivo is called on (Stage 1, its
\* polish, Stage 2) lies in the box, and so does the final vector.
C1_BoundsRespected ==
    BoundsValidos(limites) =>
        /\ pc # "inicio" => bounds_arg = limites
        /\ Avaliou => InBox(ultimo.x, limites)
        /\ pc \in {"pos"} \cup Apos => InBox(params_otimizados, limites)

\* C1 witness: a finished run whose last Stage 2 evaluation was made while
\* the grid held points outside the box.
C1_Witness ==
    /\ BoundsValidos(limites)
    /\ pc = "fim"
    /\ Avaliou
    /\ \E p \in ParamGrid : ~InBox(p, limites)

\* C2: on invalid input (a bound with min > max, sequences of different
\* lengths, no sample) the run is in an error state and func_objetivo has
\* never been called nor an optimizer iteration run.
C2_InvalidInputRejected ==
    EntradaInvalida =>
        /\ ~Avaliou
        /\ nit = 0
        /\ pc \in {"inicio", "abortado"}
        /\ pc = "abortado" => erro = "InvalidInput"

\* C3: in both scripts calcular_vsaida is
\* N * (v_nernst - activation_loss - ohmic_loss - concentration_loss),
\* activation_loss being x1 + x2*T + x3*T*ln(..) + x4*T*ln(I + 1e-6).
C3_BothVariantsSubtractLosses ==
    Avaliou =>
        \A i \in 1..Len(corrente) :
            LET p == ultimo.x
                activation_loss ==
                    -perda_ativacao(corrente[i], temperatura[i],
                                    p[1], p[2], p[3], p[4]).v
                v == calcular_vsaida(corrente, temperatura, p)[i]
            IN  ~v.nan =>
                    v.v = N * (v_nernst(temperatura[i]) - activation_loss
                               - p[5] * corrente[i]
                               - perda_concentracao(p[6], p[7], corrente[i]))

\* C4: func_objetivo never returns NaN to the optimizer: a sample whose
\* logarithm argument is not positive yields a finite penalty.
C4_DomainErrorPenalised == Avaliou => ~ultimo.f.nan

\* C5: a finished run in which a stage used up its iteration budget reports
\* a result that carries a non-convergence annotation.
C5_NonConvergenceAnnotated ==
    (pc = "fim" /\ ~(resultado.success /\ refinamento.success)) =>
        "nao_convergiu" \in DOMAIN saida

\* C6: what func_objetivo returns is >= 0, and it is 0 exactly when the
\* predicted voltage equals vref at every sample.
C6_ObjectiveNonNegative ==
    Avaliou =>
        LET v == calcular_vsaida(corrente, temperatura, ultimo.x)
        IN  /\ NaoNegativo(ultimo.f)
            /\ EhZero(ultimo.f) <=>
                    \A i \in 1..Len(corrente) :
                        ~v[i].nan /\ v[i].v = vref[i]

\* C7: for the evaluated vector and any vector that differs from it only in
\* Rint, at every sample with I > 0 the larger Rint gives the strictly lower
\* voltage, and the difference is N * (Rint_b - Rint_a) * I.
C7_RintMonotonic ==
    Avaliou =>
        LET pa == ultimo.x
            va == calcular_vsaida(corrente, temperatura, pa)
        IN  \A r \in Grade[5] \ {pa[5]} :
                LET pb == [pa EXCEPT ![5] = r]
                    vb == calcular_vsaida(corrente, temperatura, pb)
                IN  \A i \in 1..Len(corrente) :
                        corrente[i] > 0 =>
                            /\ ~va[i].nan /\ ~vb[i].nan
                            /\ pa[5] < pb[5] => vb[i].v < va[i].v
                            /\ pb[5] < pa[5] => va[i].v < vb[i].v
                            /\ va[i].v - vb[i].v
                                 = N * (pb[5] - pa[5]) * corrente[i]

\* C7 witness: an evaluation with a sample of more than 1 A and a grid
\* vector that differs only in Rint.
C7_Witness ==
    /\ Avaliou
    /\ \E i \in 1..Len(corrente) : corrente[i] > 1
    /\ Grade[5] \ {ultimo.x[5]} # {}

\* C8: the stages start in the order Stage 1, Stage 2, post-processing, each
\* at most once; Stage 2 starts from the vector Stage 1 returned; once
\* post-processing is done both stages have run, whatever Stage 1 returned.
C8_StageOrder ==
    /\ \E k \in 0..3 : etapas = SubSeq(<<"etapa1", "etapa2", "pos">>, 1, k)
    /\ pc \in {"lbfgs", "lbfgs_fim", "pos"} \cup Apos =>
            /\ x0 = resultado.x
            /\ Len(etapas) >= 2
    /\ pc \in Apos => Len(etapas) = 3

\* C8 witness: a finished run whose Stage 1 returned a NaN objective.
C8_Witness ==
    /\ pc = "fim"
    /\ resultado.fun.nan
    /\ etapas = <<"etapa1", "etapa2", "pos">>

ResultadoCalculado ==
    /\ params_otimizados = refinamento.x
    /\ v_saida_otimizada
         = calcular_vsaida(corrente, temperatura, refinamento.x)
    /\ \A i \in 1..Len(corrente) :
        LET v == v_saida_otimizada[i]
        IN  /\ potencia_saida[i].nan = v.nan
            /\ erro_perc[i].nan = v.nan
            /\ ~v.nan =>
                /\ potencia_saida[i].v = v.v * corrente[i]
                /\ erro_perc[i].v
                     = (Abs(vref[i] - v.v) * 1000) \div Abs(vref[i])

\* C9, as the claim states it: the percent error is
\* |vref - pred| / vref * 100.
C9_PercentErrorAsClaimed ==
    pc \in Apos =>
        \A i \in 1..Len(corrente) :
            ~v_saida_otimizada[i].nan =>
                erro_perc[i].v
                  = Quot(Abs(vref[i] - v_saida_otimizada[i].v) * 1000, vref[i])

\* C9, amended: post-processing computes the result from Stage 2's vector,
\* with percent error |vref - pred| / |vref| * 100 and power pred * corrente,
\* and no later step changes the parameters, voltages, errors or powers.
C9_FitResultFrame ==
    [][/\ pc' \in Apos => ResultadoCalculado'
       /\ pc \in Apos => UNCHANGED <<params_otimizados, pos>>]_vars

\* C9 witness: a finished run in which Stage 2 moved away from Stage 1's
\* vector and a sample has a negative reference voltage.
C9_Witness ==
    /\ pc = "fim"
    /\ refinamento.x # resultado.x
    /\ \E i \in 1..Len(corrente) : vref[i] < 0 /\ erro_perc[i].v > 0

\* C10, as the claim states it: a run on valid input reaches post-processing
\* and a stage has ended only with its tolerance met or its iteration cap
\* reached.
C10_StopsOnlyOnTolOrCap ==
    /\ (~EntradaInvalida) ~> (pc \in Apos)
    /\ [](pc = "de_fim" => (resultado.success \/ nit = DE_maxiter))
    /\ [](pc = "lbfgs_fim" => (refinamento.success \/ nit = LBFGS_maxiter))

\* C10, amended: under FairSpec a run on valid input reaches post-processing;
\* Stage 1 has ended only with its tolerance met or its 3000 generations
\* done, and Stage 2 never runs more than its 5000 iterations.
C10_Terminates ==
    /\ (~EntradaInvalida) ~> (pc \in Apos)
    /\ [](pc = "de_fim" => (resultado.success \/ nit = DE_maxiter))
    /\ [](pc \in {"lbfgs", "lbfgs_fim"} => nit <= LBFGS_maxiter)

\* C10 witness: a finished run on valid input in which Stage 1 ran to its
\* generation cap and Stage 2 stopped early without meeting its tolerance.
C10_Witness ==
    /\ ~EntradaInvalida
    /\ pc = "fim"
    /\ ~resultado.success
    /\ ~refinamento.success
    /\ nit < LBFGS_maxiter

=============================================================================
